---- MODULE Spec2Model ----
(***************************************************************************)
(* Deep-Notes: the vault semantic index.                                   *)
(*                                                                         *)
(*   chunkNote / splitLongBlock   the chunker            (vectorStore.ts)  *)
(*   VaultVectorStore             the record store       (vectorStore.ts)  *)
(*   VaultIndexer                 indexVault / indexSingleNote (indexer.ts)*)
(*                                                                         *)
(* A text is a sequence of one-character strings.  The store is the item   *)
(* list of the vectra LocalIndex, in insertion order; every call on the    *)
(* LocalIndex is one atomic step, and the awaits between the calls are the  *)
(* points where other callbacks of the single-threaded host may run.       *)
(***************************************************************************)
EXTENDS Integers, Sequences, FiniteSets, TLC

----------------------------------------------------------------------------
(* Program constants *)

\* pushChunk: "if (trimmed.length < 30) return"
MIN_CHUNK == 30
\* splitLongBlock: "block.length <= 800", "buffer.length + para.length > 800"
MAX_BLOCK == 800
\* search: queryItems(queryEmbedding, "", topK + 5, undefined)
OVERFETCH == 5

----------------------------------------------------------------------------
(* Texts *)

\* String.prototype.trim and the regex class \s, on the characters used here
WS == {" ", "\n", "\t"}

Rep(c, n) == [i \in 1..n |-> c]

\* index of the first character that is not white space, Len(s)+1 if none
FirstNonWs(s) ==
  CHOOSE i \in 1..(Len(s) + 1) :
    /\ (i = Len(s) + 1 \/ s[i] \notin WS)
    /\ \A k \in 1..(i - 1) : s[k] \in WS

\* index of the last character that is not white space, 0 if none
LastNonWs(s) ==
  CHOOSE i \in 0..Len(s) :
    /\ (i = 0 \/ s[i] \notin WS)
    /\ \A k \in (i + 1)..Len(s) : s[k] \in WS

\* text.trim()
Trim(s) ==
  IF FirstNonWs(s) > Len(s) THEN << >>
  ELSE SubSeq(s, FirstNonWs(s), LastNonWs(s))

\* index of the next "\n" at or after i, Len(s)+1 if none
LineEnd(s, i) ==
  CHOOSE j \in i..(Len(s) + 1) :
    /\ (j = Len(s) + 1 \/ s[j] = "\n")
    /\ \A k \in i..(j - 1) : s[k] # "\n"

RECURSIVE SplitFrom(_, _)
SplitFrom(s, i) ==
  LET j == LineEnd(s, i)
  IN  IF j > Len(s) THEN << SubSeq(s, i, Len(s)) >>
      ELSE << SubSeq(s, i, j - 1) >> \o SplitFrom(s, j + 1)

\* content.split("\n")
SplitLines(s) == SplitFrom(s, 1)

----------------------------------------------------------------------------
(* The heading pattern  /^(#{1,3})\s+(.+)/  on one line *)

\* number of leading "#" of the line
HashRun(l) ==
  CHOOSE n \in 0..Len(l) :
    /\ (n = Len(l) \/ l[n + 1] # "#")
    /\ \A k \in 1..n : l[k] = "#"

\* last index of the white-space run that starts at j (s[j] is white space)
WsRunEnd(s, j) ==
  CHOOSE e \in j..Len(s) :
    /\ (e = Len(s) \/ s[e + 1] \notin WS)
    /\ \A k \in j..e : s[k] \in WS

\* line.match(...) is not null: one to three "#", white space, one more character
headingMatch(l) ==
  LET h == HashRun(l)
  IN  /\ h \in 1..3
      /\ Len(l) >= h + 2
      /\ l[h + 1] \in WS

headingLine(l) == l

\* headingMatch[2]: \s+ is greedy but leaves at least one character to (.+)
headingText(l) ==
  LET h == HashRun(l)
      e == WsRunEnd(l, h + 1)
  IN  IF e < Len(l) THEN SubSeq(l, e + 1, Len(l))
      ELSE SubSeq(l, Len(l), Len(l))

----------------------------------------------------------------------------
(* The chunker: chunkNote, pushChunk, splitLongBlock *)

\* A chunker state: the chunks pushed so far and the chunkIndex counter of the
\* closure that pushChunk increments.
NoChunks == [chunks |-> << >>, chunkIndex |-> 0]

pushChunkCounts(st, text, heading, filePath) ==
  LET trimmed == Trim(text)
  IN  IF Len(trimmed) < MIN_CHUNK THEN [st EXCEPT !.chunkIndex = @ + 1]
      ELSE [chunks |-> Append(st.chunks,
                        [text |-> trimmed, filePath |-> filePath,
                         chunkIndex |-> st.chunkIndex, heading |-> heading]),
            chunkIndex |-> st.chunkIndex + 1]

pushChunkAny(st, text, heading, filePath) ==
  [chunks |-> Append(st.chunks,
                [text |-> Trim(text), filePath |-> filePath,
                 chunkIndex |-> st.chunkIndex, heading |-> heading]),
   chunkIndex |-> st.chunkIndex + 1]

\* pushChunk(text, heading)
pushChunk(st, text, heading, filePath) ==
  LET trimmed == Trim(text)
  IN  IF Len(trimmed) < MIN_CHUNK THEN st
      ELSE [chunks |-> Append(st.chunks,
                        [text |-> trimmed, filePath |-> filePath,
                         chunkIndex |-> st.chunkIndex, heading |-> heading]),
            chunkIndex |-> st.chunkIndex + 1]

\* last "\n" of the white-space run that starts at the "\n" at j
SepEnd(s, j) ==
  LET re == WsRunEnd(s, j)
  IN  CHOOSE e \in j..re :
        /\ s[e] = "\n"
        /\ \A k \in (e + 1)..re : s[k] # "\n"

\* a match of /\n\s*\n/ starts at j
IsSep(s, j) == s[j] = "\n" /\ SepEnd(s, j) > j

\* start of the leftmost match of /\n\s*\n/ at or after i, Len(s)+1 if none
SepStart(s, i) ==
  CHOOSE j \in i..(Len(s) + 1) :
    /\ (j = Len(s) + 1 \/ IsSep(s, j))
    /\ \A k \in i..(j - 1) : ~IsSep(s, k)

RECURSIVE ParasFrom(_, _)
ParasFrom(s, i) ==
  LET j == SepStart(s, i)
  IN  IF j > Len(s) THEN << SubSeq(s, i, Len(s)) >>
      ELSE << SubSeq(s, i, j - 1) >> \o ParasFrom(s, SepEnd(s, j) + 1)

\* block.split(/\n\s*\n/)
SplitParagraphs(s) == ParasFrom(s, 1)

\* the loop of splitLongBlock over paragraphs[k..], with the buffer so far
RECURSIVE ParaLoop(_, _, _, _, _, _)
ParaLoop(st, paragraphs, k, buffer, heading, filePath) ==
  IF k > Len(paragraphs)
  THEN IF Trim(buffer) # << >> THEN pushChunk(st, buffer, heading, filePath)
       ELSE st
  ELSE LET para == paragraphs[k]
       IN  IF Len(buffer) + Len(para) > MAX_BLOCK /\ Len(buffer) > 0
           THEN ParaLoop(pushChunk(st, buffer, heading, filePath),
                         paragraphs, k + 1, para, heading, filePath)
           ELSE ParaLoop(st, paragraphs, k + 1,
                         buffer \o (IF buffer # << >> THEN <<"\n", "\n">> ELSE << >>) \o para,
                         heading, filePath)

RECURSIVE CutLoop(_, _, _, _)
CutLoop(st, block, heading, filePath) ==
  IF Len(block) <= MAX_BLOCK THEN pushChunk(st, block, heading, filePath)
  ELSE CutLoop(pushChunk(st, SubSeq(block, 1, MAX_BLOCK), heading, filePath),
               SubSeq(block, MAX_BLOCK + 1, Len(block)), heading, filePath)

splitLongBlockLines(st, block, heading, filePath) ==
  IF Len(block) <= MAX_BLOCK THEN pushChunk(st, block, heading, filePath)
  ELSE ParaLoop(st, SplitLines(block), 1, << >>, heading, filePath)

splitLongBlockCuts(st, block, heading, filePath) ==
  CutLoop(st, Trim(block), heading, filePath)

\* splitLongBlock(block, heading, pushChunk)
splitLongBlock(st, block, heading, filePath) ==
  IF Len(block) <= MAX_BLOCK THEN pushChunk(st, block, heading, filePath)
  ELSE ParaLoop(st, SplitParagraphs(block), 1, << >>, heading, filePath)

\* "if (currentBlock.trim()) splitLongBlock(currentBlock, currentHeading, pushChunk)"
flushBlock(st, block, heading, filePath) ==
  IF Trim(block) # << >> THEN splitLongBlock(st, block, heading, filePath)
  ELSE st

Introduction == <<"I","n","t","r","o","d","u","c","t","i","o","n">>

\* the loop of chunkNote over lines[k..]
RECURSIVE LineLoop(_, _, _, _, _, _)
LineLoop(st, lines, k, currentHeading, currentBlock, filePath) ==
  IF k > Len(lines)
  THEN flushBlock(st, currentBlock, currentHeading, filePath)
  ELSE LET line == lines[k]
       IN  IF headingMatch(line)
           THEN LineLoop(flushBlock(st, currentBlock, currentHeading, filePath),
                         lines, k + 1, headingText(line), << >>, filePath)
           ELSE LineLoop(st, lines, k + 1, currentHeading,
                         currentBlock \o line \o <<"\n">>, filePath)

\* chunkNote(content, filePath): the chunks, in the order they were pushed
chunkNote(content, filePath) ==
  LineLoop(NoChunks, SplitLines(content), 1, Introduction, << >>, filePath).chunks

----------------------------------------------------------------------------
(* The vault and the embedding provider *)

\* Bounds of the model
MaxMtime == 2
MaxEvents == 2
MaxStore == 6
MaxTopK == 2

\* app.vault.getMarkdownFiles(): the markdown files of the vault, in order
FilePaths == <<"a.md", "b.md">>
Paths == {FilePaths[n] : n \in DOMAIN FilePaths}

BodyX == Rep("x", MIN_CHUNK)
BodyY == Rep("y", MIN_CHUNK)

\* The note texts a file can hold:
\*   1  a heading and a body shorter than MIN_CHUNK
\*   2  one body of MIN_CHUNK characters, no heading
\*   3  two headed sections of MIN_CHUNK characters each
Catalog ==
  << <<"#", " ", "T", "\n", "x", "x", "x", "x">>,
     BodyX \o <<"\n">>,
     <<"#", " ", "A", "\n">> \o BodyX \o <<"\n", "#", "#", " ", "B", "\n">> \o BodyY >>
Contents == DOMAIN Catalog

\* chunkNote(content, file.path) for every text of the catalogue
ChunkTable == [p \in Paths |-> [c \in Contents |-> chunkNote(Catalog[c], p)]]

\* The vectors the provider returns; all have norm 5
Vectors == {<<3, 4>>, <<4, 3>>}
QueryVectors == {<<5, 0>>, <<3, 4>>}

\* getEmbedding(text, settings): the provider is a function of the text
getEmbedding(text) == IF text[1] = "x" THEN <<3, 4>> ELSE <<4, 3>>

\* what an embedding call can do: a vector, [] (Gemini's "?? []"), or an error
EmbedOutcomes == {"vector", "empty", "throw"}

----------------------------------------------------------------------------
(* State *)

VARIABLES
  vault,     \* file path -> [mtime, content]: TFile.stat.mtime and the file's text
  store,     \* the items of the LocalIndex, in insertion order
  created,   \* LocalIndex.isIndexCreated()
  indexing,  \* VaultIndexer.indexing
  tasks,     \* the calls in progress: task -> its position and locals
  found,     \* the last search call: its arguments and the value it returned
  events,    \* calls and modifications so far, counted where calls may overlap
  note,      \* the pieces of the text handed to the chunker, in order
  chunked,   \* the last chunkNote call: whether it was made and what it returned
  indexBefore \* the items of the index when the second of two passes was called

vars == <<vault, store, created, indexing, tasks, found, events, note, chunked, indexBefore>>

\* two calls can be in progress at a time
Tasks == {1, 2}

NoItem == [filePath |-> ""]

NoSearch ==
  [called |-> FALSE, q |-> <<0, 0>>, topK |-> 0, exclude |-> "", results |-> << >>]

NoCall == [called |-> FALSE, chunks |-> << >>]

\* A task slot with no call in it
Idle ==
  [kind |-> "idle", pc |-> "idle", outcome |-> "none",
   i |-> 0, indexed |-> 0, skipped |-> 0, failed |-> 0,
   file |-> "", mtime |-> 0, content |-> 0, todel |-> << >>, k |-> 0,
   item |-> NoItem,
   calls |-> 0, mine |-> {}, nOld |-> 0, fresh |-> FALSE]

Init ==
  /\ vault = [p \in Paths |-> [mtime |-> 1, content |-> IF p = FilePaths[1] THEN 3 ELSE 2]]
  /\ store = << >>
  /\ created = TRUE
  /\ indexing = FALSE
  /\ tasks = [t \in Tasks |-> Idle]
  /\ found = NoSearch
  /\ events = 0
  /\ note = << >>
  /\ chunked = NoCall
  /\ indexBefore = << >>

----------------------------------------------------------------------------
(* The LocalIndex calls the store makes.  An item's id is its position in the *)
(* item list; the ids held by a call are renumbered when an item is deleted,  *)
(* and 0 stands for the id of an item that no longer exists.                  *)

listItemsAll(items, filePath) == [k \in 1..Len(items) |-> k]

listItemsFirst(items, filePath) ==
  LET ids == {n \in DOMAIN items : items[n].filePath = filePath}
  IN  IF ids = {} THEN << >> ELSE <<CHOOSE n \in ids : \A m \in ids : n <= m>>

\* index.listItemsByMetadata({filePath}): ids of the items of the path, in order
listItemsByMetadata(items, filePath) ==
  LET ids == {n \in DOMAIN items : items[n].filePath = filePath}
      nth[k \in 1..Cardinality(ids)] ==
        CHOOSE n \in ids : Cardinality({m \in ids : m < n}) = k - 1
  IN  [k \in 1..Cardinality(ids) |-> nth[k]]

deleteItemKeeps(items, id) == items

\* index.deleteItem(id): drops the item of that id, if there is one
deleteItem(items, id) ==
  [n \in 1..(Len(items) - (IF id \in DOMAIN items THEN 1 ELSE 0)) |->
     IF id \in DOMAIN items /\ n >= id THEN items[n + 1] ELSE items[n]]

\* an id held by a call, after the item of id "gone" was deleted
Renumber(id, gone) ==
  IF gone = 0 THEN id
  ELSE IF id = gone THEN 0
  ELSE IF id > gone THEN id - 1
  ELSE id

RenumberTask(tk, gone) ==
  [tk EXCEPT !.todel = [n \in DOMAIN tk.todel |-> Renumber(tk.todel[n], gone)],
             !.mine = {Renumber(x, gone) : x \in tk.mine} \ {0}]

\* the ids held by a call, after the index was deleted
ForgetIds(tk) ==
  [tk EXCEPT !.todel = [n \in DOMAIN tk.todel |-> 0], !.mine = {}]

isIndexedNever(items, filePath, mtime) == FALSE

isIndexedGe(items, filePath, mtime) ==
  LET results == listItemsByMetadata(items, filePath)
  IN  IF Len(results) = 0 THEN FALSE
      ELSE items[results[1]].mtime >= mtime

\* VaultVectorStore.isIndexed(filePath, mtime), on the items of the index
isIndexed(items, filePath, mtime) ==
  LET results == listItemsByMetadata(items, filePath)
  IN  IF Len(results) = 0 THEN FALSE
      ELSE items[results[1]].mtime = mtime

\* VaultVectorStore.getStats().totalChunks
getStats(items) == Len(items)

----------------------------------------------------------------------------
(* Retrieval *)

Dot(q, v) == q[1] * v[1] + q[2] * v[2]

\* the similarity the LocalIndex ranks by: the cosine of query and item, here
\* times 25 (every vector of the model has norm 5)
Score(items, q, n) == Dot(q, items[n].vector)

\* the ids 1..n of the items, better scores first, equal scores in store order
RECURSIVE Ranked(_, _, _)
Ranked(items, q, n) ==
  IF n = 0 THEN << >>
  ELSE LET before == Ranked(items, q, n - 1)
           k == Cardinality({j \in DOMAIN before :
                               Score(items, q, before[j]) >= Score(items, q, n)})
       IN  SubSeq(before, 1, k) \o <<n>> \o SubSeq(before, k + 1, Len(before))

\* index.queryItems(queryEmbedding, "", k, undefined): the k nearest items with
\* their scores, best first
queryItems(items, q, k) ==
  LET ranked == Ranked(items, q, Len(items))
  IN  [j \in 1..(IF k < Len(items) THEN k ELSE Len(items)) |->
         [item |-> items[ranked[j]], score |-> Score(items, q, ranked[j])]]

\* parts[parts.length - 1].replace(/\.md$/, "") for the paths of the model
noteTitle(filePath) ==
  CASE filePath = "a.md" -> "a"
    [] filePath = "b.md" -> "b"
    [] OTHER -> filePath

\* the filter of search: "!excludeFilePath || meta.filePath !== excludeFilePath"
Kept(r, excludeFilePath) ==
  excludeFilePath = "" \/ r.item.filePath # excludeFilePath

\* results.slice(0, topK), for topK >= 0
Slice(results, topK) ==
  SubSeq(results, 1, IF topK < Len(results) THEN topK ELSE Len(results))

\* the projection of search's map
ToResult(r) ==
  [text |-> r.item.text, filePath |-> r.item.filePath,
   noteTitle |-> noteTitle(r.item.filePath), heading |-> r.item.heading,
   score |-> r.score]

searchNoFilter(items, queryEmbedding, topK, excludeFilePath) ==
  LET results == queryItems(items, queryEmbedding, topK + OVERFETCH)
      kept == Slice(results, topK)
  IN  [n \in DOMAIN kept |-> ToResult(kept[n])]

searchNoSlice(items, queryEmbedding, topK, excludeFilePath) ==
  LET results == queryItems(items, queryEmbedding, topK + OVERFETCH)
      kept == SelectSeq(results, LAMBDA r : Kept(r, excludeFilePath))
  IN  [n \in DOMAIN kept |-> ToResult(kept[n])]

searchLastK(items, queryEmbedding, topK, excludeFilePath) ==
  LET results == queryItems(items, queryEmbedding, topK + OVERFETCH)
      all == SelectSeq(results, LAMBDA r : Kept(r, excludeFilePath))
      kept == SubSeq(all, (IF topK < Len(all) THEN Len(all) - topK ELSE 0) + 1, Len(all))
  IN  [n \in DOMAIN kept |-> ToResult(kept[n])]

searchSliceFirst(items, queryEmbedding, topK, excludeFilePath) ==
  LET results == queryItems(items, queryEmbedding, topK + OVERFETCH)
      kept == SelectSeq(Slice(results, topK), LAMBDA r : Kept(r, excludeFilePath))
  IN  [n \in DOMAIN kept |-> ToResult(kept[n])]

\* VaultVectorStore.search(queryEmbedding, topK, excludeFilePath)
search(items, queryEmbedding, topK, excludeFilePath) ==
  LET results == queryItems(items, queryEmbedding, topK + OVERFETCH)
      kept == Slice(SelectSeq(results, LAMBDA r : Kept(r, excludeFilePath)), topK)
  IN  [n \in DOMAIN kept |-> ToResult(kept[n])]

----------------------------------------------------------------------------
(* One call: where it continues after each await *)

\* the chunks indexNote works through: chunkNote(content, file.path)
ChunksOf(tk) == ChunkTable[tk.file][tk.content]

\* indexVault's "if (this.indexing)": the pass is refused while the flag is set
IndexingGuardOff == FALSE
IndexingGuard == indexing

\* a call has returned or thrown: what its caller sees, and what it did
Done(tk, res) ==
  [Idle EXCEPT !.kind = tk.kind, !.pc = "done", !.outcome = res,
               !.indexed = tk.indexed, !.skipped = tk.skipped,
               !.failed = tk.failed, !.calls = tk.calls,
               !.file = IF tk.kind = "single" THEN tk.file ELSE "",
               !.content = IF tk.kind = "single" THEN tk.content ELSE 0,
               !.k = IF tk.kind = "single" THEN tk.k ELSE 0,
               !.mine = IF tk.kind = "single" THEN tk.mine ELSE {},
               !.nOld = IF tk.kind = "single" THEN tk.nOld ELSE 0,
               !.fresh = IF tk.kind = "single" THEN tk.fresh ELSE FALSE]

\* indexVault, top of the for loop with tk.i the next file: the loop ends (and
\* the finally block runs), or isIndexed(file.path, file.stat.mtime) is called
NextFile(tk) ==
  IF tk.i > Len(FilePaths) THEN Done(tk, "complete")
  ELSE [tk EXCEPT !.pc = "fresh", !.file = FilePaths[tk.i],
                  !.mtime = vault[FilePaths[tk.i]].mtime]

\* the item indexNote builds from a chunk and its vector
ItemOf(chunk, vector, mtime) ==
  [vector |-> vector, filePath |-> chunk.filePath,
   chunkIndex |-> chunk.chunkIndex, heading |-> chunk.heading,
   text |-> chunk.text, mtime |-> mtime]

\* the index holds, for file d, one item per chunk of the file's present text,
\* each with the file's present modification time, and nothing else (and at
\* least one): d was indexed in full and not modified since
UpToDate(d) ==
  LET chunks == ChunkTable[d][vault[d].content]
      ids == listItemsByMetadata(store, d)
  IN  /\ Len(chunks) > 0
      /\ Len(ids) = Len(chunks)
      /\ \A k \in DOMAIN chunks :
            store[ids[k]] = ItemOf(chunks[k], getEmbedding(chunks[k].text), vault[d].mtime)

\* indexSingleNote(file) is entered: it runs to "await vault.read(file)".
\* (fresh records whether the file was up to date in the index at that moment.)
BeginNote(tk, file) ==
  [tk EXCEPT !.pc = "read", !.file = file, !.mtime = 0, !.content = 0,
             !.todel = << >>, !.k = 0, !.item = NoItem, !.mine = {}, !.nOld = 0,
             !.fresh = UpToDate(file)]

FinishNoteCountsBoth(tk, res) ==
  IF tk.kind = "single" THEN Done(tk, res)
  ELSE NextFile([tk EXCEPT !.indexed = @ + 1,
                           !.failed = IF res = "ok" THEN @ ELSE @ + 1,
                           !.i = @ + 1, !.content = 0, !.todel = << >>,
                           !.k = 0, !.item = NoItem, !.mine = {}, !.nOld = 0,
                           !.fresh = FALSE])

FinishNoteSwallows(tk, res) ==
  IF tk.kind = "single" THEN Done(tk, "ok")
  ELSE NextFile([tk EXCEPT !.indexed = IF res = "ok" THEN @ + 1 ELSE @,
                           !.failed = IF res = "ok" THEN @ ELSE @ + 1,
                           !.i = @ + 1, !.content = 0, !.todel = << >>,
                           !.k = 0, !.item = NoItem, !.mine = {}, !.nOld = 0,
                           !.fresh = FALSE])

FinishNoteAborts(tk, res) ==
  IF tk.kind = "single" THEN Done(tk, res)
  ELSE IF res = "ok" THEN NextFile([tk EXCEPT !.indexed = @ + 1, !.i = @ + 1])
  ELSE Done(tk, "error")

\* indexSingleNote returns (res = "ok") or throws (res = "threw"); in a pass
\* the try/catch of the loop counts it and the loop goes on with the next file
FinishNote(tk, res) ==
  IF tk.kind = "single" THEN Done(tk, res)
  ELSE NextFile([tk EXCEPT !.indexed = IF res = "ok" THEN @ + 1 ELSE @,
                           !.failed = IF res = "ok" THEN @ ELSE @ + 1,
                           !.i = @ + 1, !.content = 0, !.todel = << >>,
                           !.k = 0, !.item = NoItem, !.mine = {}, !.nOld = 0,
                           !.fresh = FALSE])

\* indexNote's for loop with tk.k the next chunk: embedFn(chunk.text) is
\* called, or the loop is over and indexNote returns
NextChunk(tk) ==
  IF tk.k > Len(ChunksOf(tk)) THEN FinishNote(tk, "ok")
  ELSE [tk EXCEPT !.pc = "embed", !.calls = @ + 1]

\* removeNote has returned: chunkNote, then the first chunk
AfterRemove(tk) == NextChunk([tk EXCEPT !.k = 1])

FlagAfterSuccess(tk) ==
  IF tk.kind = "vault" /\ tk.pc = "done" /\ tk.outcome = "complete" THEN FALSE
  ELSE indexing

\* the finally block of an accepted pass has run when the pass is done
FlagAfter(tk) ==
  IF tk.kind = "vault" /\ tk.pc = "done" THEN FALSE ELSE indexing

----------------------------------------------------------------------------
(* Actions.  "alone" restricts a call to start only when no other call is in  *)
(* progress (the specification of calls made one after the other).            *)

Running(t) == tasks[t].pc \notin {"idle", "done"}

CanStart(t, alone) ==
  /\ tasks[t].pc = "idle"
  /\ \A u \in Tasks : u < t => tasks[u].pc # "idle"
  /\ alone => \A u \in Tasks : tasks[u].pc = "idle"
  /\ ~alone => events < MaxEvents

\* the call of task t continues as tk; the store and the vault stay
Continue(t, tk) ==
  /\ tasks' = [tasks EXCEPT ![t] = tk]
  /\ indexing' = FlagAfter(tk)
  /\ UNCHANGED <<indexBefore, note, chunked, vault, store, created, found, events>>

\* The host modifies a file: new text, later modification time
Modify(d, c, alone) ==
  /\ vault[d].mtime < MaxMtime
  /\ ~alone => events < MaxEvents
  /\ vault' = [vault EXCEPT ![d] = [mtime |-> @.mtime + 1, content |-> c]]
  /\ events' = IF alone THEN events ELSE events + 1
  /\ UNCHANGED <<indexBefore, note, chunked, store, created, indexing, tasks, found>>

\* indexSingleNote(file) is called by the modify handler or the view
StartSingle(t, d, alone) ==
  /\ CanStart(t, alone)
  /\ tasks' = [tasks EXCEPT ![t] = BeginNote([Idle EXCEPT !.kind = "single"], d)]
  /\ UNCHANGED <<indexBefore, note, chunked, vault, store, created, indexing, found>>
  /\ events' = IF alone THEN events ELSE events + 1

\* indexVault() is called by the command or the view's button
StartVault(t, alone) ==
  /\ CanStart(t, alone)
  /\ IF IndexingGuard
     THEN /\ tasks' = [tasks EXCEPT ![t] = Done([Idle EXCEPT !.kind = "vault"], "rejected")]
          /\ UNCHANGED indexing
     ELSE /\ tasks' = [tasks EXCEPT ![t] =
                         NextFile([Idle EXCEPT !.kind = "vault", !.i = 1])]
          /\ indexing' = TRUE
  /\ UNCHANGED <<indexBefore, note, chunked, vault, store, created, found>>
  /\ events' = IF alone THEN events ELSE events + 1

\* "await this.plugin.app.vault.read(file)" returns the text
ReadReturn(t) ==
  /\ tasks[t].pc = "read"
  /\ Continue(t, [tasks[t] EXCEPT !.pc = "list",
                                  !.content = vault[tasks[t].file].content])

\* ... or fails
ReadThrows(t) ==
  /\ tasks[t].pc = "read"
  /\ Continue(t, FinishNote(tasks[t], "threw"))

\* removeNote: listItemsByMetadata returns the items to delete
ListReturn(t) ==
  /\ tasks[t].pc = "list"
  /\ IF ~created THEN Continue(t, FinishNote(tasks[t], "threw"))
     ELSE LET results == listItemsByMetadata(store, tasks[t].file)
              tk == [tasks[t] EXCEPT !.todel = results, !.nOld = Len(results)]
          IN  Continue(t, IF Len(results) = 0 THEN AfterRemove(tk)
                          ELSE [tk EXCEPT !.pc = "delete"])

\* removeNote: one deleteItem returns
DeleteReturn(t) ==
  /\ tasks[t].pc = "delete"
  /\ IF ~created THEN Continue(t, FinishNote(tasks[t], "threw"))
     ELSE LET id == Head(tasks[t].todel)
              held == [u \in Tasks |-> RenumberTask(tasks[u], id)]
              tk == [held[t] EXCEPT !.todel = Tail(@)]
          IN  /\ store' = deleteItem(store, id)
              /\ tasks' = [held EXCEPT ![t] =
                             IF tk.todel = << >> THEN AfterRemove(tk) ELSE tk]
              /\ indexing' = FlagAfter(tasks'[t])
              /\ UNCHANGED <<indexBefore, note, chunked, vault, created, found, events>>

EmbedReturnSkips(t, o) ==
  /\ tasks[t].pc = "embed"
  /\ LET tk == tasks[t]
         chunk == ChunksOf(tk)[tk.k]
     IN  Continue(t,
           IF o = "vector"
           THEN [tk EXCEPT !.pc = "insert",
                           !.item = ItemOf(chunk, getEmbedding(chunk.text),
                                           vault[tk.file].mtime)]
           ELSE NextChunk([tk EXCEPT !.k = @ + 1]))

EmbedReturnAborts(t, o) ==
  /\ tasks[t].pc = "embed"
  /\ LET tk == tasks[t]
         chunk == ChunksOf(tk)[tk.k]
     IN  Continue(t,
           IF o = "vector"
           THEN [tk EXCEPT !.pc = "insert",
                           !.item = ItemOf(chunk, getEmbedding(chunk.text),
                                           vault[tk.file].mtime)]
           ELSE FinishNote(tk, "threw"))

\* indexNote: the embedding call of chunk k returns a vector, [] or throws;
\* with a vector the item is built (file.stat.mtime is read) and insertItem called
EmbedReturn(t, o) ==
  /\ tasks[t].pc = "embed"
  /\ LET tk == tasks[t]
         chunk == ChunksOf(tk)[tk.k]
     IN  Continue(t,
           CASE o = "throw" -> FinishNote(tk, "threw")
             [] o = "empty" -> NextChunk([tk EXCEPT !.k = @ + 1])
             [] o = "vector" ->
                  [tk EXCEPT !.pc = "insert",
                             !.item = ItemOf(chunk, getEmbedding(chunk.text),
                                             vault[tk.file].mtime)])

\* indexNote: insertItem returns
InsertReturn(t) ==
  /\ tasks[t].pc = "insert"
  /\ IF ~created THEN Continue(t, FinishNote(tasks[t], "threw"))
     ELSE LET tk == [tasks[t] EXCEPT !.item = NoItem,
                                     !.mine = @ \cup {Len(store) + 1},
                                     !.k = @ + 1]
          IN  /\ store' = Append(store, tasks[t].item)
              /\ tasks' = [tasks EXCEPT ![t] = NextChunk(tk)]
              /\ indexing' = FlagAfter(tasks'[t])
              /\ UNCHANGED <<indexBefore, note, chunked, vault, created, found, events>>

FreshReturnAlways(t) ==
  /\ tasks[t].pc = "fresh"
  /\ LET tk == tasks[t]
     IN  Continue(t, IF ~created THEN Done(tk, "error") ELSE BeginNote(tk, tk.file))

\* indexVault: isIndexed returns; a fresh file is skipped, a stale one indexed.
\* isIndexed is awaited outside the loop's inner try: its error ends the pass.
FreshReturn(t) ==
  /\ tasks[t].pc = "fresh"
  /\ LET tk == tasks[t]
     IN  Continue(t,
           IF ~created THEN Done(tk, "error")
           ELSE IF isIndexed(store, tk.file, tk.mtime)
                THEN NextFile([tk EXCEPT !.skipped = @ + 1, !.i = @ + 1])
                ELSE BeginNote(tk, tk.file))

\* clearIndex() is called by the "clear index" command
StartClear(t, alone) ==
  /\ CanStart(t, alone)
  /\ tasks' = [tasks EXCEPT ![t] = [Idle EXCEPT !.kind = "clear", !.pc = "isCreated"]]
  /\ UNCHANGED <<indexBefore, note, chunked, vault, store, created, indexing, found>>
  /\ events' = IF alone THEN events ELSE events + 1

\* clearIndex: "if (await this.index.isIndexCreated())"
IsCreatedReturn(t) ==
  /\ tasks[t].pc = "isCreated"
  /\ Continue(t, IF created THEN [tasks[t] EXCEPT !.pc = "deleteIndex"]
                 ELSE Done(tasks[t], "ok"))

\* clearIndex: deleteIndex returns; the index folder is gone
DeleteIndexReturn(t) ==
  /\ tasks[t].pc = "deleteIndex"
  /\ tasks' = [u \in Tasks |->
                 IF u # t THEN ForgetIds(tasks[u])
                 ELSE IF created THEN [tasks[t] EXCEPT !.pc = "createIndex"]
                 ELSE Done(tasks[t], "threw")]
  /\ store' = << >>
  /\ created' = FALSE
  /\ UNCHANGED <<indexBefore, note, chunked, vault, indexing, found, events>>

\* clearIndex: createIndex returns; the index exists again, empty
CreateIndexReturn(t) ==
  /\ tasks[t].pc = "createIndex"
  /\ tasks' = [tasks EXCEPT ![t] = Done(@, IF created THEN "threw" ELSE "ok")]
  /\ created' = TRUE
  /\ UNCHANGED <<indexBefore, note, chunked, vault, store, indexing, found, events>>

\* the caller has the call's result; the slot is free again
Return(t) ==
  /\ tasks[t].pc = "done"
  /\ tasks' = [tasks EXCEPT ![t] = Idle]
  /\ UNCHANGED <<indexBefore, note, chunked, vault, store, created, indexing, found, events>>

NextOf(alone) ==
  \/ \E d \in Paths, c \in Contents : Modify(d, c, alone)
  \/ \E t \in Tasks, d \in Paths : StartSingle(t, d, alone)
  \/ \E t \in Tasks : StartVault(t, alone)
  \/ \E t \in Tasks : StartClear(t, alone)
  \/ \E t \in Tasks : ReadReturn(t)
  \/ \E t \in Tasks : ReadThrows(t)
  \/ \E t \in Tasks : ListReturn(t)
  \/ \E t \in Tasks : DeleteReturn(t)
  \/ \E t \in Tasks, o \in EmbedOutcomes : EmbedReturn(t, o)
  \/ \E t \in Tasks : InsertReturn(t)
  \/ \E t \in Tasks : FreshReturn(t)
  \/ \E t \in Tasks : IsCreatedReturn(t)
  \/ \E t \in Tasks : DeleteIndexReturn(t)
  \/ \E t \in Tasks : CreateIndexReturn(t)
  \/ \E t \in Tasks : Return(t)

\* calls may overlap at their awaits
Next == NextOf(FALSE)
Spec == Init /\ [][Next]_vars

\* the call the indexer or the store awaits in task t returns or throws
Settles(t) ==
  \/ FreshReturn(t)
  \/ ReadReturn(t)
  \/ ReadThrows(t)
  \/ ListReturn(t)
  \/ DeleteReturn(t)
  \/ \E o \in EmbedOutcomes : EmbedReturn(t, o)
  \/ InsertReturn(t)

\* calls may overlap, and every awaited call returns or throws in the end
SpecLive == Init /\ [][Next]_vars /\ \A t \in Tasks : WF_vars(Settles(t))

\* calls are made one after the other
NextSeq == NextOf(TRUE)
SpecSeq == Init /\ [][NextSeq]_vars

----------------------------------------------------------------------------
(* Retrieval over any index: the items are inserted one by one, with any     *)
(* path and vector, and search is called with any arguments.                 *)

\* index.insertItem of a chunk of path p whose embedding is v
InsertItem(p, v) ==
  /\ Len(store) < MaxStore
  /\ ~found.called
  /\ store' = Append(store,
       ItemOf([filePath |-> p, chunkIndex |-> Len(listItemsByMetadata(store, p)),
               heading |-> Introduction, text |-> BodyX],
              v, vault[p].mtime))
  /\ UNCHANGED <<indexBefore, note, chunked, vault, created, indexing, tasks, found, events>>

SearchTakes(q, topK, ex) ==
  /\ created
  /\ ~found.called
  /\ found' = [called |-> TRUE, q |-> q, topK |-> topK, exclude |-> ex,
               results |-> search(store, q, topK, ex)]
  /\ store' = SubSeq(store, 1, Len(store) - Len(found'.results))
  /\ UNCHANGED <<indexBefore, note, chunked, vault, created, indexing, tasks, events>>

\* search(q, topK, ex) is called and returns
Search(q, topK, ex) ==
  /\ created
  /\ ~found.called
  /\ found' = [called |-> TRUE, q |-> q, topK |-> topK, exclude |-> ex,
               results |-> search(store, q, topK, ex)]
  /\ UNCHANGED <<indexBefore, note, chunked, vault, store, created, indexing, tasks, events>>

\* the caller has the results
SearchDone ==
  /\ found.called
  /\ found' = NoSearch
  /\ UNCHANGED <<indexBefore, note, chunked, vault, store, created, indexing, tasks, events>>

NextSearch ==
  \/ \E p \in Paths, v \in Vectors : InsertItem(p, v)
  \/ SearchDone
  \/ \E q \in QueryVectors, topK \in 0..MaxTopK, ex \in Paths \cup {""} :
       Search(q, topK, ex)

SpecSearch == Init /\ [][NextSearch]_vars

----------------------------------------------------------------------------
(* Retrieval during indexing: passes over the vault, one at a time, the host  *)
(* modifying files, and search called at any await of a pass.  A search       *)
(* result is handed to its caller before the pass goes on; every search asks  *)
(* for MaxTopK results.                                                       *)

NextRead ==
  \/ /\ ~found.called
     /\ \/ \E d \in Paths, c \in Contents : Modify(d, c, TRUE)
        \/ \E t \in Tasks : StartVault(t, TRUE)
        \/ \E t \in Tasks : FreshReturn(t)
        \/ \E t \in Tasks : ReadReturn(t)
        \/ \E t \in Tasks : ReadThrows(t)
        \/ \E t \in Tasks : ListReturn(t)
        \/ \E t \in Tasks : DeleteReturn(t)
        \/ \E t \in Tasks, o \in EmbedOutcomes : EmbedReturn(t, o)
        \/ \E t \in Tasks : InsertReturn(t)
        \/ \E t \in Tasks : Return(t)
  \/ SearchDone
  \/ \E q \in QueryVectors, ex \in Paths \cup {""} : Search(q, MaxTopK, ex)

SpecRead == Init /\ [][NextRead]_vars

----------------------------------------------------------------------------
(* Retrieval over an index larger than what search fetches: the items are    *)
(* inserted as indexNote inserts them, chunk after chunk of a file, the files *)
(* in any interleaving; a file's sections are alternately x and y text.       *)

\* one item more than the largest search fetches
FillCap == MaxTopK + OVERFETCH + 1

\* indexNote inserts the next chunk of file p
InsertChunk(p) ==
  /\ Len(store) < FillCap
  /\ ~found.called
  /\ LET k == Len(listItemsByMetadata(store, p))
         text == IF k % 2 = 0 THEN BodyX ELSE BodyY
     IN  store' = Append(store,
           ItemOf([filePath |-> p, chunkIndex |-> k,
                   heading |-> Introduction, text |-> text],
                  getEmbedding(text), vault[p].mtime))
  /\ UNCHANGED <<indexBefore, note, chunked, vault, created, indexing, tasks, found, events>>

NextFill ==
  \/ \E p \in Paths : InsertChunk(p)
  \/ SearchDone
  \/ \E q \in QueryVectors, topK \in 0..MaxTopK, ex \in Paths \cup {""} :
       Search(q, topK, ex)

SpecFill == Init /\ [][NextFill]_vars

----------------------------------------------------------------------------
(* Two passes over a vault: files are indexed one by one and changed by the  *)
(* host, then indexVault is called and runs to its end, and it is called     *)
(* again with nothing done in between.                                       *)

\* the host modifies a file before the first pass
ModifyFirst(d, c) ==
  /\ \A t \in Tasks : tasks[t].pc = "idle"
  /\ Modify(d, c, TRUE)

\* an indexSingleNote call made before the first pass has returned or thrown
ReturnFirst ==
  /\ tasks[1].kind = "single"
  /\ Return(1)

\* indexVault() is called when the first call has ended: the guard, the flag,
\* the list of files and the first isIndexed call
StartAgain ==
  /\ tasks[1].kind = "vault" /\ tasks[1].pc = "done"
  /\ tasks[2].pc = "idle"
  /\ IF IndexingGuard
     THEN /\ tasks' = [tasks EXCEPT ![2] = Done([Idle EXCEPT !.kind = "vault"], "rejected")]
          /\ UNCHANGED indexing
     ELSE /\ tasks' = [tasks EXCEPT ![2] = NextFile([Idle EXCEPT !.kind = "vault", !.i = 1])]
          /\ indexing' = TRUE
  /\ indexBefore' = store
  /\ UNCHANGED <<vault, store, created, found, events, note, chunked>>

NextTwice ==
  \/ \E d \in Paths, c \in Contents : ModifyFirst(d, c)
  \/ \E d \in Paths : StartSingle(1, d, TRUE)
  \/ ReturnFirst
  \/ StartVault(1, TRUE)
  \/ StartAgain
  \/ \E t \in Tasks : FreshReturn(t)
  \/ \E t \in Tasks : ReadReturn(t)
  \/ \E t \in Tasks : ReadThrows(t)
  \/ \E t \in Tasks : ListReturn(t)
  \/ \E t \in Tasks : DeleteReturn(t)
  \/ \E t \in Tasks, o \in EmbedOutcomes : EmbedReturn(t, o)
  \/ \E t \in Tasks : InsertReturn(t)

SpecTwice == Init /\ [][NextTwice]_vars

----------------------------------------------------------------------------
(* The chunker over any note text: the text is written piece by piece, a     *)
(* heading line, a blank line or a paragraph line of a length around the     *)
(* chunker's two limits, and chunkNote is called on the text written so far. *)

\* the number of pieces of a text
MaxPieces == 4

\* H a heading line, B a blank line, S, M, P, L one-line paragraphs
Pieces == {"H", "B", "S", "M", "P", "L"}

PieceText(x) ==
  CASE x = "H" -> <<"#", " ", "T", "\n">>
    [] x = "B" -> <<"\n">>
    [] x = "S" -> Rep("s", MIN_CHUNK - 1) \o <<"\n">>
    [] x = "M" -> Rep("m", MIN_CHUNK) \o <<"\n">>
    [] x = "P" -> Rep("p", MAX_BLOCK \div 2) \o <<"\n">>
    [] x = "L" -> Rep("l", MAX_BLOCK + 1) \o <<"\n">>

\* the text of the file: its pieces one after the other
RECURSIVE TextOf(_)
TextOf(pieces) ==
  IF pieces = << >> THEN << >>
  ELSE PieceText(Head(pieces)) \o TextOf(Tail(pieces))

\* the file's text grows by one piece
Write(x) ==
  /\ ~chunked.called
  /\ Len(note) < MaxPieces
  /\ note' = Append(note, x)
  /\ UNCHANGED <<indexBefore, vault, store, created, indexing, tasks, found, events, chunked>>

\* indexNote: "const chunks = chunkNote(content, file.path)"
ChunkNote ==
  /\ ~chunked.called
  /\ chunked' = [called |-> TRUE, chunks |-> chunkNote(TextOf(note), FilePaths[1])]
  /\ UNCHANGED <<indexBefore, vault, store, created, indexing, tasks, found, events, note>>

NextChunker ==
  \/ \E x \in Pieces : Write(x)
  \/ ChunkNote

SpecChunk == Init /\ [][NextChunker]_vars

----------------------------------------------------------------------------
(* The chunker over outlines: the text is written section by section, first  *)
(* an optional body without a heading, then heading lines of the three       *)
(* levels, each followed by a body; a body is at the lower limit, just under *)
(* it, or fills its section up to the upper limit.                           *)

\* the number of sections of an outline
MaxSections == 3

\* the heading lines, of levels 1, 2 and 3
HeadingLines == {"H1", "H2", "H3"}

\* W is a white-space line, S, M and K are lines of text
LineText(x) ==
  CASE x = "H1" -> <<"#", " ", "A">>
    [] x = "H2" -> <<"#", "#", " ", "B">>
    [] x = "H3" -> <<"#", "#", "#", " ", "C">>
    [] x = "W" -> <<" ">>
    [] x = "S" -> Rep("s", MIN_CHUNK - 1)
    [] x = "M" -> Rep("m", MIN_CHUNK)
    [] x = "K" -> Rep("k", MAX_BLOCK - MIN_CHUNK - 4)

\* the bodies, as lines: MIN_CHUNK - 1 characters, MIN_CHUNK characters, and
\* two paragraphs of MAX_BLOCK characters in all, line ends included
Bodies == {<<"S">>, <<"M">>, <<"K", "W", "M">>}

\* the text of the file: its lines, each ended by "\n"
RECURSIVE OutlineOf(_)
OutlineOf(lines) ==
  IF lines = << >> THEN << >>
  ELSE LineText(Head(lines)) \o <<"\n">> \o OutlineOf(Tail(lines))

\* the number of sections written: the heading lines, and the body before them
SectionCount(lines) ==
  Cardinality({n \in DOMAIN lines : lines[n] \in HeadingLines})
    + (IF lines # << >> /\ lines[1] \notin HeadingLines THEN 1 ELSE 0)

\* the file's text starts with a body that has no heading
WriteIntro(b) ==
  /\ ~chunked.called
  /\ note = << >>
  /\ note' = b
  /\ UNCHANGED <<indexBefore, vault, store, created, indexing, tasks, found, events, chunked>>

\* the file's text grows by a heading line and its body
WriteSection(h, b) ==
  /\ ~chunked.called
  /\ SectionCount(note) < MaxSections
  /\ note' = note \o <<h>> \o b
  /\ UNCHANGED <<indexBefore, vault, store, created, indexing, tasks, found, events, chunked>>

\* indexNote: "const chunks = chunkNote(content, file.path)"
ChunkOutline ==
  /\ ~chunked.called
  /\ chunked' = [called |-> TRUE, chunks |-> chunkNote(OutlineOf(note), FilePaths[1])]
  /\ UNCHANGED <<indexBefore, vault, store, created, indexing, tasks, found, events, note>>

NextOutline ==
  \/ \E b \in Bodies : WriteIntro(b)
  \/ \E h \in HeadingLines, b \in Bodies : WriteSection(h, b)
  \/ ChunkOutline

SpecOutline == Init /\ [][NextOutline]_vars

----------------------------------------------------------------------------
(* The chunker over one paragraph: the text is written run by run, with no   *)
(* heading line and no blank line, up to two and a half times MAX_BLOCK.     *)

\* the number of runs of a paragraph
MaxRuns == 5

\* Q a run of letters, T a run that ends with a space, N one that ends a line
Runs == {"Q", "T", "N"}

RunText(x) ==
  CASE x = "Q" -> Rep("q", MAX_BLOCK \div 2)
    [] x = "T" -> Rep("t", MAX_BLOCK \div 2 - 1) \o <<" ">>
    [] x = "N" -> Rep("n", MAX_BLOCK \div 2 - 1) \o <<"\n">>

\* the text of the file: its runs one after the other
RECURSIVE ParagraphOf(_)
ParagraphOf(runs) ==
  IF runs = << >> THEN << >>
  ELSE RunText(Head(runs)) \o ParagraphOf(Tail(runs))

\* the file's paragraph grows by one run
WriteRun(x) ==
  /\ ~chunked.called
  /\ Len(note) < MaxRuns
  /\ note' = Append(note, x)
  /\ UNCHANGED <<indexBefore, vault, store, created, indexing, tasks, found, events, chunked>>

\* indexNote: "const chunks = chunkNote(content, file.path)"
ChunkParagraph ==
  /\ ~chunked.called
  /\ chunked' = [called |-> TRUE, chunks |-> chunkNote(ParagraphOf(note), FilePaths[1])]
  /\ UNCHANGED <<indexBefore, vault, store, created, indexing, tasks, found, events, note>>

NextParagraph ==
  \/ \E x \in Runs : WriteRun(x)
  \/ ChunkParagraph

SpecParagraph == Init /\ [][NextParagraph]_vars

----------------------------------------------------------------------------
(* Properties *)

\* the ids of the items of path p
ItemsOf(p) == {n \in DOMAIN store : store[n].filePath = p}

\* item n is the item of some chunk of text c of file p
FromContent(n, p, c) ==
  \E k \in DOMAIN ChunkTable[p][c] :
    LET chunk == ChunkTable[p][c][k]
    IN  /\ store[n].text = chunk.text
        /\ store[n].chunkIndex = chunk.chunkIndex
        /\ store[n].heading = chunk.heading

\* no two items of p have the same chunkIndex
NoDuplicate(p) ==
  \A m, n \in ItemsOf(p) : m # n => store[m].chunkIndex # store[n].chunkIndex

\* an indexSingleNote call of kind single that has returned normally
ReturnedOk(t) ==
  tasks[t].kind = "single" /\ tasks[t].pc = "done" /\ tasks[t].outcome = "ok"

\* C1 (calls made one after the other): when indexNote has run to completion
\* on an index that held items of the path, the items of the path are exactly
\* the items this call inserted: at most one per chunk of the text it read, each
\* the item of one of these chunks, and no item from before the call.
C1_Replacement ==
  \A t \in Tasks :
    (ReturnedOk(t) /\ tasks[t].nOld > 0) =>
      LET p == tasks[t].file
      IN  /\ ItemsOf(p) = tasks[t].mine
          /\ Cardinality(ItemsOf(p)) <= Len(ChunkTable[p][tasks[t].content])
          /\ \A n \in ItemsOf(p) : FromContent(n, p, tasks[t].content)
          /\ NoDuplicate(p)

\* a re-indexing call has returned that found more items than it inserted
C1_Witness ==
  \E t \in Tasks :
    /\ ReturnedOk(t)
    /\ tasks[t].mine # {}
    /\ tasks[t].nOld > Cardinality(tasks[t].mine)
    /\ ItemsOf(tasks[t].file) = tasks[t].mine

\* the modification times to ask isIndexed about: those a file can have,
\* one below and one above
AskedMtimes == 0..(MaxMtime + 1)

\* C2: isIndexed(p, m) is false when the index holds no item of p; when it is
\* true an item of p with mtime m exists; and when the items of p carry one
\* mtime s, it is true exactly for m = s (false for smaller and for larger m).
C2_IsFresh ==
  \A p \in Paths, m \in AskedMtimes :
    LET stored == {store[n].mtime : n \in ItemsOf(p)}
    IN  /\ ItemsOf(p) = {} => ~isIndexed(store, p, m)
        /\ isIndexed(store, p, m) => m \in stored
        /\ Cardinality(stored) = 1 => (isIndexed(store, p, m) <=> stored = {m})

\* a pass has skipped a file as fresh; the file is indexed with its mtime, and
\* isIndexed is false for the mtime below and the mtime above
C2_Witness ==
  /\ \E t \in Tasks : tasks[t].kind = "vault" /\ tasks[t].skipped > 0
  /\ \E p \in Paths :
       /\ ItemsOf(p) # {}
       /\ isIndexed(store, p, vault[p].mtime)
       /\ ~isIndexed(store, p, vault[p].mtime - 1)
       /\ ~isIndexed(store, p, vault[p].mtime + 1)

\* C3 (as claimed): an indexSingleNote call on a file that is up to date in
\* the index makes no embedding call.
C3_Idempotent ==
  \A t \in Tasks :
    (tasks[t].kind = "single" /\ tasks[t].fresh) => tasks[t].calls = 0

\* the indexVault passes in progress
Passes == {t \in Tasks : tasks[t].kind = "vault" /\ Running(t)}

\* task t calls indexVault in this step and the call is refused
Refused(t) ==
  /\ tasks[t].pc = "idle"
  /\ tasks'[t].kind = "vault"
  /\ tasks'[t].outcome = "rejected"

\* C4: at most one pass is in progress, and the flag is set exactly while one
\* is; an indexVault call made while the flag is set is refused, and a refused
\* call makes no embedding call, leaves the index, the flag, the vault and
\* every other call as they are.
C4_MutualExclusion ==
  /\ [](Cardinality(Passes) <= 1 /\ (indexing <=> Passes # {}))
  /\ [][\A t \in Tasks :
          /\ (tasks[t].pc = "idle" /\ tasks'[t].kind = "vault" /\ indexing)
               => Refused(t)
          /\ Refused(t) =>
               /\ indexing /\ indexing'
               /\ tasks'[t].calls = 0
               /\ tasks'[t].pc = "done"
               /\ store' = store /\ created' = created /\ vault' = vault
               /\ \A u \in Tasks \ {t} : tasks'[u] = tasks[u]]_vars

\* a pass is in progress and another indexVault call has been refused
C4_Witness ==
  \E t, u \in Tasks :
    /\ t \in Passes
    /\ tasks[u].kind = "vault" /\ tasks[u].outcome = "rejected"
    /\ indexing

\* the files a pass has handled so far
Handled(tk) == tk.indexed + tk.skipped + tk.failed

\* an accepted pass that has ended
Ended(t) ==
  tasks[t].kind = "vault" /\ tasks[t].pc = "done" /\ tasks[t].outcome # "rejected"

\* C5 (as claimed): whatever is thrown while a pass handles a file is counted
\* as a failure and the pass goes on: a pass that has ended has handled every
\* file.
C5_NoAbort ==
  \A t \in Tasks : Ended(t) => Handled(tasks[t]) = Len(FilePaths)

\* in this step indexSingleNote, called by the pass of task t, throws
NoteThrows(t) ==
  /\ tasks[t].kind = "vault"
  /\ tasks[t].pc \in {"read", "list", "delete", "embed", "insert"}
  /\ tasks'[t].pc \in {"fresh", "done"}
  /\ tasks'[t].indexed = tasks[t].indexed

\* C5 (amended): an exception thrown inside indexSingleNote (read, chunking,
\* embedding, store write) adds one to the failure counter and the pass goes
\* on with the next file, or completes if it was the last; a pass that
\* completes has handled every file.  Only an exception of the freshness
\* check ends a pass early (outcome "error").
C5_NoAbortInNote ==
  /\ [](\A t \in Tasks :
          /\ (Ended(t) /\ tasks[t].outcome = "complete")
               => Handled(tasks[t]) = Len(FilePaths)
          /\ Ended(t) => tasks[t].outcome \in {"complete", "error"})
  /\ [][\A t \in Tasks :
          /\ NoteThrows(t) =>
               /\ tasks'[t].failed = tasks[t].failed + 1
               /\ tasks'[t].skipped = tasks[t].skipped
               /\ IF tasks[t].i < Len(FilePaths)
                  THEN tasks'[t].pc = "fresh" /\ tasks'[t].file = FilePaths[tasks[t].i + 1]
                  ELSE tasks'[t].outcome = "complete"
          /\ (tasks[t].kind = "vault" /\ Running(t) /\ tasks'[t].outcome = "error")
               => tasks[t].pc = "fresh" /\ ~created]_vars

\* a pass has completed in which the first file failed and the second was indexed
C5_Witness ==
  \E t \in Tasks :
    /\ Ended(t) /\ tasks[t].outcome = "complete"
    /\ tasks[t].failed = 1 /\ tasks[t].indexed = 1
    /\ ItemsOf(FilePaths[1]) = {} /\ ItemsOf(FilePaths[2]) # {}

\* no call is in progress
Quiet == \A t \in Tasks : ~Running(t)

\* C6 (as claimed): once all calls have completed, the index holds at most one
\* item per (path, chunkIndex), and the items of a path are all chunks of one
\* text.
C6_NeverCorrupt ==
  Quiet =>
    \A p \in Paths :
      /\ NoDuplicate(p)
      /\ \E c \in Contents : \A n \in ItemsOf(p) : FromContent(n, p, c)

\* C7 (as claimed): all items of a path carry the same mtime.
C7_SameMtime ==
  \A m, n \in DOMAIN store :
    store[m].filePath = store[n].filePath => store[m].mtime = store[n].mtime

\* C8 (as claimed): after an indexNote call that threw once the old items were
\* deleted, isIndexed for the file and its present mtime is false.
C8_SelfHealing ==
  \A t \in Tasks :
    (/\ tasks[t].kind = "single" /\ tasks[t].pc = "done"
     /\ tasks[t].outcome = "threw" /\ tasks[t].k >= 1)
      => ~isIndexed(store, tasks[t].file, vault[tasks[t].file].mtime)

\* C9: search with an excluded path returns no result of that path.
C9_Exclusion ==
  (found.called /\ found.exclude # "") =>
    \A n \in DOMAIN found.results : found.results[n].filePath # found.exclude

\* a search has excluded the path of the nearest item and returned results
C9_Witness ==
  /\ found.called /\ found.exclude # ""
  /\ found.topK > 0
  /\ Len(store) > 0
  /\ queryItems(store, found.q, 1)[1].item.filePath = found.exclude
  /\ Len(found.results) > 0

\* C10: search returns at most topK results.
C10_SizeBound == found.called => Len(found.results) <= found.topK

\* a search has returned topK > 0 results, with an excluded path and more than
\* topK items of other paths among the nearest: the slice has cut
C10_Witness ==
  /\ found.called
  /\ found.topK > 0
  /\ found.exclude # ""
  /\ Len(searchNoSlice(store, found.q, found.topK, found.exclude)) > found.topK
  /\ Len(found.results) = found.topK

\* the records the last search fetched from the store: the nearest, best first
Fetched == queryItems(store, found.q, found.topK + OVERFETCH)

\* the positions in fetched of the records that are not of the excluded path
KeptAt(fetched) ==
  {n \in DOMAIN fetched :
     found.exclude = "" \/ fetched[n].item.filePath # found.exclude}

\* the i-th of the positions keptAt
NthKept(keptAt, i) ==
  CHOOSE n \in keptAt : Cardinality({m \in keptAt : m < n}) = i - 1

\* C11: the results of search have non-increasing scores, and they are the
\* first non-excluded records of those the store returned, in the store's
\* order: nothing is reordered, and no non-excluded record is passed over for
\* one ranked after it.
C11_Ranking ==
  found.called =>
    LET fetched == Fetched
        keptAt == KeptAt(fetched)
    IN  /\ \A i, j \in DOMAIN found.results :
             i < j => found.results[i].score >= found.results[j].score
        /\ Len(found.results) <= Cardinality(keptAt)
        /\ \A i \in DOMAIN found.results :
             found.results[i] = ToResult(fetched[NthKept(keptAt, i)])

\* a search has returned two results of different scores, with a record of
\* the excluded path ranked between them and a non-excluded record cut off
C11_Witness ==
  /\ found.called /\ found.exclude # ""
  /\ Len(found.results) = 2
  /\ found.results[1].score > found.results[2].score
  /\ LET keptAt == KeptAt(Fetched)
     IN  /\ NthKept(keptAt, 2) > NthKept(keptAt, 1) + 1
         /\ Cardinality(keptAt) > found.topK

\* the records of the index that are not of the excluded path
NotExcluded ==
  {n \in DOMAIN store : found.exclude = "" \/ store[n].filePath # found.exclude}

\* C12 (as claimed): whenever the index holds at least topK records that are
\* not of the excluded path, search returns exactly topK results.
C12_NoUnderFilling ==
  (found.called /\ Cardinality(NotExcluded) >= found.topK) =>
    Len(found.results) = found.topK

\* C12 (amended): search returns the non-excluded records among the
\* topK + OVERFETCH nearest, up to topK of them.  It returns exactly topK when
\* the index holds at least topK non-excluded records and either holds no more
\* than topK + OVERFETCH records or at most OVERFETCH of the nearest
\* topK + OVERFETCH are of the excluded path.
C12_FillWithinMargin ==
  found.called =>
    LET fetched == Fetched
        nKept == Cardinality(KeptAt(fetched))
    IN  /\ Len(found.results) = (IF found.topK < nKept THEN found.topK ELSE nKept)
        /\ (/\ Cardinality(NotExcluded) >= found.topK
            /\ \/ Len(store) <= found.topK + OVERFETCH
               \/ Len(fetched) - nKept <= OVERFETCH)
             => Len(found.results) = found.topK

\* a search over more records than it fetches has returned topK > 0 results
\* although the nearest topK records are all of the excluded path
C12_Witness ==
  /\ found.called /\ found.exclude # "" /\ found.topK > 0
  /\ Len(store) > found.topK + OVERFETCH
  /\ \A n \in 1..found.topK : Fetched[n].item.filePath = found.exclude
  /\ Len(found.results) = found.topK

\* C13: a step in which search is called and returns leaves the items of the
\* index, the existence of the index, the in-progress flag, the vault and
\* every call in progress as they were.
C13_SearchReadOnly ==
  [][(found' # found /\ found'.called) =>
       /\ store' = store /\ created' = created
       /\ indexing' = indexing
       /\ vault' = vault /\ tasks' = tasks]_vars

\* search has returned results in the middle of a pass: the flag is set and
\* the pass is between the first and the second chunk of a file
C13_Witness ==
  /\ found.called /\ Len(found.results) > 0
  /\ indexing
  /\ \E t \in Tasks :
       /\ tasks[t].kind = "vault" /\ tasks[t].pc = "embed" /\ tasks[t].k = 2
       /\ tasks[t].mine # {}

\* the items of the paths other than p, in index order
OtherItems(items, p) == SelectSeq(items, LAMBDA r : r.filePath # p)

\* task t is inside indexSingleNote / indexNote for its file
InNote(t) == tasks[t].pc \in {"read", "list", "delete", "embed", "insert"}

\* C14 (calls made one after the other): no step taken while indexNote runs
\* for path p changes an item of another path, and when the call has returned
\* getStats().totalChunks is the number of items the call inserted for p plus
\* the number of items of the other paths.
C14_OthersUntouched ==
  /\ [][\A t \in Tasks :
          InNote(t) =>
            OtherItems(store', tasks[t].file) = OtherItems(store, tasks[t].file)]_vars
  /\ [](\A t \in Tasks :
          ReturnedOk(t) =>
            getStats(store) = Cardinality(tasks[t].mine)
                                + Len(OtherItems(store, tasks[t].file)))

\* a modified file has been re-indexed, with a different number of items than
\* before, while the index holds items of another file
C14_Witness ==
  \E t \in Tasks :
    /\ ReturnedOk(t)
    /\ vault[tasks[t].file].mtime > 1
    /\ tasks[t].nOld > 0 /\ tasks[t].mine # {}
    /\ Cardinality(tasks[t].mine) # tasks[t].nOld
    /\ Len(OtherItems(store, tasks[t].file)) > 0
    /\ \A n \in ItemsOf(tasks[t].file) : store[n].mtime = vault[tasks[t].file].mtime

\* removeNote(file.path) has returned to indexNote in the step that led here:
\* the first chunk is being embedded, or the text gave no chunk
Removed(t) ==
  \/ tasks[t].pc = "embed" /\ tasks[t].k = 1
  \/ ReturnedOk(t) /\ Len(ChunksOf(tasks[t])) = 0

\* C15 (calls made one after the other): when removeNote(p) has returned the
\* index holds no item of p; no step of removeNote changes an item of another
\* path; and when the index holds no item of p, removeNote changes nothing
\* and does not throw.
C15_RemoveDocument ==
  /\ [](\A t \in Tasks : Removed(t) => ItemsOf(tasks[t].file) = {})
  /\ [][\A t \in Tasks :
          tasks[t].pc \in {"list", "delete"} =>
            /\ OtherItems(store', tasks[t].file) = OtherItems(store, tasks[t].file)
            /\ (tasks[t].pc = "list" /\ ItemsOf(tasks[t].file) = {}
                  /\ tasks'[t] # tasks[t])
                 => /\ store' = store
                    /\ tasks'[t].outcome # "threw"
                    /\ tasks'[t].failed = tasks[t].failed
                    /\ tasks'[t].nOld = 0]_vars

\* removeNote has deleted the two items of a file and left those of another
C15_Witness ==
  \E t \in Tasks :
    /\ tasks[t].pc = "embed" /\ tasks[t].k = 1
    /\ tasks[t].nOld = 2
    /\ ItemsOf(tasks[t].file) = {}
    /\ Len(store) > 0

\* task t's clearIndex call returns normally in this step
ClearReturns(t) ==
  /\ tasks[t].kind = "clear" /\ Running(t)
  /\ tasks'[t].pc = "done" /\ tasks'[t].outcome = "ok"

\* C16 (as claimed): whenever clearIndex returns, from any state, the index
\* exists and is empty: getStats().totalChunks = 0 and isIndexed is false for
\* every path and modification time.
C16_Clear ==
  [][\A t \in Tasks :
       ClearReturns(t) =>
         /\ created'
         /\ getStats(store') = 0
         /\ \A p \in Paths, m \in AskedMtimes : ~isIndexed(store', p, m)]_vars

\* C17: a step in which the embedding call of a chunk returns an empty vector
\* inserts nothing and throws nothing: the index is unchanged, and indexNote
\* goes on to embed the next chunk or, after the last chunk, returns normally
\* (a pass counts the file as indexed).  An indexNote call that has returned
\* normally has made one embedding call per chunk.
C17_ChunkSkip ==
  /\ [][\A t \in Tasks :
          EmbedReturn(t, "empty") =>
            /\ store' = store
            /\ tasks'[t].outcome # "threw"
            /\ tasks'[t].failed = tasks[t].failed
            /\ IF tasks[t].k < Len(ChunksOf(tasks[t]))
               THEN /\ tasks'[t].pc = "embed"
                    /\ tasks'[t].k = tasks[t].k + 1
                    /\ tasks'[t].calls = tasks[t].calls + 1
               ELSE IF tasks[t].kind = "single"
                    THEN tasks'[t].pc = "done" /\ tasks'[t].outcome = "ok"
                    ELSE tasks'[t].indexed = tasks[t].indexed + 1]_vars
  /\ [](\A t \in Tasks :
          ReturnedOk(t) => tasks[t].calls = Len(ChunksOf(tasks[t])))

\* indexNote has returned normally with the second chunk of a file in the
\* index and the first, whose embedding was empty, not
C17_Witness ==
  \E t \in Tasks :
    /\ ReturnedOk(t)
    /\ tasks[t].calls = 2
    /\ Cardinality(ItemsOf(tasks[t].file)) = 1
    /\ \A n \in ItemsOf(tasks[t].file) : store[n].chunkIndex = 1

\* in this step the read, an embedding call or a call on the index fails
\* inside the indexSingleNote call of task t
NoteFails(t) ==
  \/ ReadThrows(t)
  \/ EmbedReturn(t, "throw")
  \/ ~created /\ (ListReturn(t) \/ DeleteReturn(t) \/ InsertReturn(t))

\* the counters of the passes
Counters(tk) == <<tk.indexed, tk.skipped, tk.failed>>

\* C18: when the read, an embedding call or a store call fails inside an
\* indexSingleNote call made on its own, the call ends in that step by
\* throwing to its caller, and no counter of any pass changes.
C18_Propagates ==
  [][\A t \in Tasks :
       (tasks[t].kind = "single" /\ NoteFails(t)) =>
         /\ tasks'[t].pc = "done"
         /\ tasks'[t].outcome = "threw"
         /\ Counters(tasks'[t]) = <<0, 0, 0>>
         /\ \A u \in Tasks : Counters(tasks'[u]) = Counters(tasks[u])
         /\ indexing' = indexing]_vars

\* an indexSingleNote call has thrown to its caller while a pass that has
\* already counted a file is in progress
C18_Witness ==
  \E t, u \in Tasks :
    /\ tasks[t].kind = "single" /\ tasks[t].pc = "done"
    /\ tasks[t].outcome = "threw"
    /\ tasks[u].kind = "vault" /\ Running(u)
    /\ Handled(tasks[u]) > 0

\* C19: every chunk chunkNote returns has a trimmed text of at least MIN_CHUNK
\* characters, and a note whose whole text trims to less than that has no chunk
C19_MinChunk ==
  chunked.called =>
    /\ \A n \in DOMAIN chunked.chunks :
         /\ Len(Trim(chunked.chunks[n].text)) >= MIN_CHUNK
         /\ chunked.chunks[n].text = Trim(chunked.chunks[n].text)
    /\ Len(Trim(TextOf(note))) < MIN_CHUNK => chunked.chunks = << >>

\* a section of MIN_CHUNK - 1 characters made no chunk, the next section, of
\* MIN_CHUNK characters, made one
C19_Witness ==
  /\ chunked.called
  /\ note = <<"S", "H", "M">>
  /\ Len(chunked.chunks) = 1
  /\ chunked.chunks[1].text = Rep("m", MIN_CHUNK)

\* C20: a chunk chunkNote returns is longer than MAX_BLOCK characters only if
\* its text is one paragraph
C20_MaxChunk ==
  chunked.called =>
    \A n \in DOMAIN chunked.chunks :
      \/ Len(chunked.chunks[n].text) <= MAX_BLOCK
      \/ Len(SplitParagraphs(chunked.chunks[n].text)) = 1

\* C21: the chunks chunkNote returns are numbered 0, 1, ..., n-1 in the order
\* they were pushed, whatever was dropped in between
C21_DenseIndex ==
  chunked.called =>
    \A n \in DOMAIN chunked.chunks : chunked.chunks[n].chunkIndex = n - 1

\* a section of MIN_CHUNK - 1 characters was dropped between two sections
\* that made the chunks 0 and 1
C21_Witness ==
  /\ chunked.called
  /\ note = <<"H1", "M", "H1", "S", "H2", "M">>
  /\ Len(chunked.chunks) = 2
  /\ chunked.chunks[2].heading = <<"B">>
  /\ chunked.chunks[2].chunkIndex = 1

\* the heading a heading line names
HeadingOf(h) ==
  CASE h = "H1" -> <<"A">> [] h = "H2" -> <<"B">> [] h = "H3" -> <<"C">>

\* where the sections of an outline start: at its heading lines, and at 0 when
\* it starts with a body
SectionStarts(lines) ==
  {n \in DOMAIN lines : lines[n] \in HeadingLines}
    \cup (IF lines # << >> /\ lines[1] \notin HeadingLines THEN {0} ELSE {})

\* the sections of an outline in document order: heading and body text
SectionsOf(lines) ==
  LET starts == SectionStarts(lines)
      nth[k \in 1..Cardinality(starts)] ==
        CHOOSE n \in starts : Cardinality({m \in starts : m < n}) = k - 1
      end(k) == IF k = Cardinality(starts) THEN Len(lines) ELSE nth[k + 1] - 1
  IN  [k \in 1..Cardinality(starts) |->
         [heading |-> IF nth[k] = 0 THEN Introduction ELSE HeadingOf(lines[nth[k]]),
          body |-> OutlineOf(SubSeq(lines, nth[k] + 1, end(k)))]]

\* every section has a body of at most MAX_BLOCK characters that trims to at
\* least MIN_CHUNK characters
Outlined(secs) ==
  \A k \in DOMAIN secs :
    /\ Len(secs[k].body) <= MAX_BLOCK
    /\ Len(Trim(secs[k].body)) >= MIN_CHUNK

RECURSIVE JoinParagraphs(_)
JoinParagraphs(paras) ==
  IF Len(paras) = 1 THEN paras[1]
  ELSE paras[1] \o <<"\n", "\n">> \o JoinParagraphs(Tail(paras))

\* C22 as stated: an outline whose bodies are within the two limits has one
\* chunk per section, in order, with the section's heading (Introduction for
\* the text before the first heading) and the section's body as text
C22_OnePerSection ==
  LET secs == SectionsOf(note)
  IN  (chunked.called /\ Outlined(secs)) =>
        /\ Len(chunked.chunks) = Len(secs)
        /\ \A k \in DOMAIN secs :
             /\ chunked.chunks[k].heading = secs[k].heading
             /\ chunked.chunks[k].text = Trim(secs[k].body)

\* C22: an outline whose bodies are within the two limits has one chunk per
\* section, in order, with the section's heading; its text is the body, unless
\* the body and the text's last line end exceed MAX_BLOCK characters together:
\* then it is the body's paragraphs joined by one empty line
C22_OnePerSectionJoined ==
  LET secs == SectionsOf(note)
  IN  (chunked.called /\ Outlined(secs)) =>
        /\ Len(chunked.chunks) = Len(secs)
        /\ \A k \in DOMAIN secs :
             /\ chunked.chunks[k].heading = secs[k].heading
             /\ chunked.chunks[k].text =
                  IF Len(secs[k].body) + (IF k = Len(secs) THEN 1 ELSE 0) <= MAX_BLOCK
                  THEN Trim(secs[k].body)
                  ELSE Trim(JoinParagraphs(SplitParagraphs(secs[k].body)))

\* three sections made three chunks: the text before the first heading, a
\* section of MAX_BLOCK characters kept as it is, and a last one whose
\* white-space line was replaced
C22_Witness ==
  /\ chunked.called
  /\ note = <<"M", "H2", "K", "W", "M", "H3", "K", "W", "M">>
  /\ Len(chunked.chunks) = 3
  /\ chunked.chunks[1].heading = Introduction
  /\ chunked.chunks[2].text = Trim(OutlineOf(<<"K", "W", "M">>))
  /\ chunked.chunks[3].text # Trim(OutlineOf(<<"K", "W", "M">>))

\* the length of the paragraph of scenario B: 2000 characters
ScenarioB == 2 * MAX_BLOCK + MAX_BLOCK \div 2

\* C23 as stated: a text that is one paragraph of 2000 characters, with no
\* heading, has ceil(2000 / MAX_BLOCK) = 3 chunks, all headed Introduction
C23_ScenarioB ==
  (chunked.called /\ Len(ParagraphOf(note)) = ScenarioB) =>
    /\ Len(chunked.chunks) = (ScenarioB + MAX_BLOCK - 1) \div MAX_BLOCK
    /\ \A n \in DOMAIN chunked.chunks : chunked.chunks[n].heading = Introduction

\* C23: a text that is one paragraph of 2000 characters, with no heading, has
\* one chunk, headed Introduction, whose text is the whole paragraph
C23_ScenarioBOneChunk ==
  (chunked.called /\ Len(ParagraphOf(note)) = ScenarioB) =>
    /\ Len(chunked.chunks) = 1
    /\ chunked.chunks[1].heading = Introduction
    /\ chunked.chunks[1].text = Trim(ParagraphOf(note))

\* chunkNote was called on 2000 letters on one line and returned one chunk of
\* 2000 characters
C23_Witness ==
  /\ chunked.called
  /\ note = <<"Q", "Q", "Q", "Q", "Q">>
  /\ Len(chunked.chunks) = 1
  /\ Len(chunked.chunks[1].text) = ScenarioB

\* C24 (calls made one after the other): a step in which the embedding call
\* of the k-th chunk throws ends indexNote with the error: indexSingleNote
\* throws to its caller, or the pass counts the file as failed.  The index is
\* left as it is: the items of the file are those this call inserted, no item
\* from before the call, at most one per chunk before the k-th and none for
\* the k-th chunk or a later one; the items of the other files are unchanged.
C24_EmbedThrows ==
  [][\A t \in Tasks :
       EmbedReturn(t, "throw") =>
         LET tk == tasks[t]
         IN  /\ store' = store
             /\ IF tk.kind = "single"
                THEN tasks'[t].pc = "done" /\ tasks'[t].outcome = "threw"
                ELSE /\ tasks'[t].failed = tk.failed + 1
                     /\ tasks'[t].indexed = tk.indexed
             /\ ItemsOf(tk.file) = tk.mine
             /\ NoDuplicate(tk.file)
             /\ \A n \in ItemsOf(tk.file) :
                  /\ store[n].chunkIndex < tk.k - 1
                  /\ FromContent(n, tk.file, tk.content)]_vars

\* indexSingleNote has thrown at the second chunk of a file that had items
\* before the call: the item of the first chunk is the file's only item, and
\* the index holds items of another file
C24_Witness ==
  \E t \in Tasks :
    /\ tasks[t].kind = "single" /\ tasks[t].pc = "done"
    /\ tasks[t].outcome = "threw"
    /\ tasks[t].k = 2 /\ tasks[t].nOld > 0
    /\ ItemsOf(tasks[t].file) = tasks[t].mine
    /\ Cardinality(tasks[t].mine) = 1
    /\ \A n \in tasks[t].mine : store[n].chunkIndex = 0
    /\ Len(OtherItems(store, tasks[t].file)) > 0

\* the calls whose embedding call is in flight
Embedding == {t \in Tasks : tasks[t].pc = "embed"}

\* C25: at most one embedding call is in flight at any moment, also when
\* indexSingleNote calls overlap a pass
C25_OneEmbedding == Cardinality(Embedding) <= 1

\* in this step isIndexed returns true to the pass of task t
SkipsFile(t) ==
  /\ FreshReturn(t)
  /\ created
  /\ isIndexed(store, tasks[t].file, tasks[t].mtime)

\* C26: a step in which isIndexed returns true to a pass adds one to the
\* pass's skip counter and moves it to the next file or to its end; the index,
\* the vault and the other counters are unchanged and no embedding call is made
C26_FreshSkipped ==
  [][\A t \in Tasks :
       SkipsFile(t) =>
         /\ store' = store /\ created' = created /\ vault' = vault
         /\ tasks'[t].skipped = tasks[t].skipped + 1
         /\ tasks'[t].indexed = tasks[t].indexed
         /\ tasks'[t].failed = tasks[t].failed
         /\ tasks'[t].calls = tasks[t].calls
         /\ IF tasks[t].i < Len(FilePaths)
            THEN tasks'[t].pc = "fresh" /\ tasks'[t].i = tasks[t].i + 1
            ELSE tasks'[t].pc = "done" /\ tasks'[t].outcome = "complete"
         /\ \A u \in Tasks \ {t} : tasks'[u] = tasks[u]]_vars

\* a pass has ended having skipped every file: it made no embedding call and
\* the index holds the items of both files
C26_Witness ==
  \E t \in Tasks :
    /\ Ended(t)
    /\ tasks[t].skipped = Len(FilePaths)
    /\ tasks[t].calls = 0
    /\ \A p \in Paths : ItemsOf(p) # {}

\* the pieces that are lines of text
TextPieces == {"S", "M", "P", "L"}

\* pieces i..j of the note are a paragraph: lines of text, with a blank line, a
\* heading line or an end of the text on either side
IsParagraph(i, j) ==
  /\ i <= j
  /\ \A n \in i..j : note[n] \in TextPieces
  /\ i = 1 \/ note[i - 1] \notin TextPieces
  /\ j = Len(note) \/ note[j + 1] \notin TextPieces

\* the paragraphs of the note, trimmed
ParagraphsOfNote ==
  {Trim(TextOf(SubSeq(note, i, j))) :
     <<i, j>> \in {r \in (DOMAIN note) \X (DOMAIN note) : IsParagraph(r[1], r[2])}}

\* the note is one section holding one paragraph: its lines of text follow one
\* another, and no heading line is followed by a blank line
OneParagraph ==
  /\ \E i, j \in DOMAIN note :
       /\ IsParagraph(i, j)
       /\ \A n \in DOMAIN note : note[n] \in TextPieces => n \in i..j
  /\ \A n \in DOMAIN note : note[n] = "H" => n = 1

\* C27: every paragraph of a chunk is a whole paragraph of the note, and a
\* note that is one section of one paragraph longer than MAX_BLOCK characters
\* has exactly one chunk, whose text is the paragraph
C27_WholeParagraphs ==
  chunked.called =>
    /\ \A n \in DOMAIN chunked.chunks :
         LET paras == SplitParagraphs(chunked.chunks[n].text)
         IN  \A k \in DOMAIN paras : Trim(paras[k]) \in ParagraphsOfNote
    /\ (OneParagraph /\ \E q \in ParagraphsOfNote : Len(q) > MAX_BLOCK) =>
         /\ Len(chunked.chunks) = 1
         /\ chunked.chunks[1].text \in ParagraphsOfNote

\* a headed section that is one paragraph of two lines, 1202 characters, made
\* one chunk of 1202 characters
C27_Witness ==
  /\ chunked.called
  /\ note = <<"H", "L", "P">>
  /\ Len(chunked.chunks) = 1
  /\ Len(chunked.chunks[1].text) = Len(TextOf(<<"L", "P">>)) - 1

\* C28: when every awaited call returns or throws, a set flag is cleared in the
\* end; the flag is set only while an accepted pass is running, and an
\* indexVault call made when no pass is running is accepted
C28_FlagReleased ==
  /\ indexing ~> ~indexing
  /\ [](indexing => Passes # {})
  /\ [][\A t \in Tasks :
          (tasks[t].pc = "idle" /\ tasks'[t].kind = "vault" /\ Passes = {})
            => /\ tasks'[t].outcome # "rejected"
               /\ indexing']_vars

\* a pass has ended because isIndexed threw, outside the inner try, and the
\* flag is clear
C28_Witness ==
  /\ ~indexing
  /\ \E t \in Tasks :
       /\ tasks[t].kind = "vault" /\ tasks[t].pc = "done"
       /\ tasks[t].outcome = "error"

\* an accepted pass whose file loop has run to its end
Completed(t) ==
  tasks[t].kind = "vault" /\ tasks[t].pc = "done" /\ tasks[t].outcome = "complete"

\* C29: while a pass is at its i-th file it has counted i - 1 files, a pass
\* whose loop has ended has counted every file, and a step of a pass that
\* moves it to the next file or to the end of the loop adds one to exactly one
\* of its three counters; no other step changes a counter
C29_Accounting ==
  /\ [](\A t \in Passes : Handled(tasks[t]) = tasks[t].i - 1)
  /\ [](\A t \in Tasks : Completed(t) => Handled(tasks[t]) = Len(FilePaths))
  /\ [][\A t \in Passes :
          tasks'[t].kind = "vault" =>
            LET was == Counters(tasks[t])
                is == Counters(tasks'[t])
                moved == {n \in 1..3 : is[n] # was[n]}
            IN  /\ \A n \in moved : is[n] = was[n] + 1
                /\ Cardinality(moved) <= 1
                /\ (moved # {}) <=>
                     \/ t \in Passes' /\ tasks'[t].i = tasks[t].i + 1
                     \/ Completed(t)']_vars

\* a pass has run to the end of its loop over two files with one file counted
\* as skipped and the other as failed
C29_Witness ==
  \E t \in Tasks :
    /\ Completed(t)
    /\ Counters(tasks[t]) = <<0, 1, 1>>

\* the index held an item of file p when the second pass was called
HadRecord(p) == \E n \in DOMAIN indexBefore : indexBefore[n].filePath = p

\* the second pass has run to the end of its loop, after a first pass that
\* counted no failure, and nothing was done in between
SecondDone == Completed(2) /\ tasks[1].failed = 0

\* C30 as stated: the second pass skips every file, indexes none, fails on
\* none, makes no embedding call and leaves the index as it was
C30_SecondPass ==
  SecondDone =>
    /\ Counters(tasks[2]) = <<0, Len(FilePaths), 0>>
    /\ tasks[2].calls = 0
    /\ store = indexBefore

\* C30: the second pass skips the files of which the index held an item and
\* leaves their items as they were; a file that left no item is indexed again,
\* and counted as indexed or failed; when every file left an item the pass
\* makes no embedding call and the index is as it was
C30_SecondPassRecorded ==
  SecondDone =>
    /\ tasks[2].skipped = Cardinality({p \in Paths : HadRecord(p)})
    /\ tasks[2].indexed + tasks[2].failed = Cardinality({p \in Paths : ~HadRecord(p)})
    /\ \A p \in Paths :
         HadRecord(p) =>
           SelectSeq(store, LAMBDA r : r.filePath = p)
             = SelectSeq(indexBefore, LAMBDA r : r.filePath = p)
    /\ (\A p \in Paths : HadRecord(p)) => tasks[2].calls = 0 /\ store = indexBefore

\* after a first pass without failure the second pass has skipped one file
\* and indexed the other, which had left no item, and made an embedding call
C30_Witness ==
  /\ SecondDone
  /\ Counters(tasks[2]) = <<1, 1, 0>>
  /\ tasks[2].calls > 0
  /\ store # indexBefore
====
